---- MODULE Spec2Model ----
(***************************************************************************)
(* Matchmaking and session coordination of turing-game/server/index.js.   *)
(*                                                                         *)
(* Node runs every handler to completion; the only suspension points are  *)
(* the awaits on dbService.  A handler with an await is therefore two     *)
(* actions: the part up to the await (which records the call in `calls`)  *)
(* and the continuation (which consumes it).  Time is counted in whole    *)
(* seconds: setInterval(..., 1000) callbacks become due once per second,  *)
(* setTimeout(..., 5000) closures after five.                             *)
(*                                                                         *)
(* A socket enters the model with its first JOIN_MATCHMAKING, and sockets  *)
(* are numbered in the order in which they do.                            *)
(*                                                                         *)
(* generateRoomId() draws from Math.random(); distinct draws are taken to *)
(* be distinct, so room ids are numbered in the order they are drawn.     *)
(***************************************************************************)
EXTENDS Integers, Sequences, FiniteSets, TLC

\* ---------------------------------------------------------------- bounds
\* sockets that ever connect
NumPlayers == 4
\* room ids generateRoomId() hands out
MaxRooms == 3
\* messages in a room's transcript beyond which SEND_MESSAGE is not taken
MaxMsgs == 2
\* pending cleanup timeouts beyond which RETIRE is not taken
MaxCleanups == 2
\* one-second steps taken while a longer step to the next deadline is possible
MaxUnitTicks == 1
\* client events accepted under Spec, SpecMatch, SpecSession and SpecTurns
MaxEvents == 3
MaxMatchEvents == 4
MaxSessionEvents == 4
MaxTurnEvents == 4
\* sockets that ever connect under SpecTurns
TurnPlayers == 2

\* ------------------------------------------------------ program constants
ROOM_TIME_LIMIT == 120000
TURN_TIME_LIMIT == 900000
TICK_MS == 1000
CLEANUP_DELAY == 5000

Players == 1 .. NumPlayers
RoomIds == 1 .. MaxRooms
NoRoom == 0
CleanupSecs == CLEANUP_DELAY \div TICK_MS

VARIABLES
    waitingPlayers,  \* sequence of [id, isAI] in Map insertion order
    rooms,           \* keys of the `rooms` Map
    roomObj,         \* the room objects ever built, by room id
    roomTimers,      \* roomId -> [timeLeft, due] of the running interval
    turnTimers,      \* playerId -> [roomId, timeLeft, due]
    cleanups,        \* pending setTimeout(.., 5000) closures, oldest first
    sockRoom,        \* socket.roomId of every socket (NoRoom = undefined)
    sockets,         \* number of sockets that connected so far (ids 1..sockets)
    connected,       \* sockets that have not yet fired 'disconnect'
    calls,           \* dbService calls in flight
    nextRoom,        \* number of room ids drawn so far
    unitTicks,       \* number of one-second steps taken
    sinceInactive,   \* history: seconds since a room's first isActive=false
    relayed,         \* history: senders of a room's relayed messages, in order
    eventsLeft,      \* client events the model still accepts
    intervals,       \* running setInterval timers per room id and player id
    out              \* what the last handler emitted, in order

vars == <<waitingPlayers, rooms, roomObj, roomTimers, turnTimers, cleanups,
          sockRoom, sockets, connected, calls, nextRoom, unitTicks, sinceInactive,
          relayed, eventsLeft, intervals, out>>

\* ---------------------------------------------------------------- helpers
Min(a, b) == IF a <= b THEN a ELSE b

WaitingIds(w) == {w[i].id : i \in DOMAIN w}

\* waitingPlayers.delete(id)
MapDelete(w, id) == SelectSeq(w, LAMBDA e : e.id # id)

\* someMap.delete(key) on a function
Without(f, k) == [x \in DOMAIN f \ {k} |-> f[x]]

\* room.players.find(p => p !== id)
OtherPlayer(players, id) == IF players[1] # id THEN players[1] ELSE players[2]

\* the two latest entries instead of the two earliest
LastTwo(w) == <<w[Len(w) - 1], w[Len(w)]>>

\* Array.from(waitingPlayers.values()).slice(0, 2)
FirstTwo(w) == <<w[1], w[2]>>

\* socket.roomId && rooms.has(socket.roomId)
InRoom(s) == sockRoom[s] # NoRoom /\ sockRoom[s] \in rooms

\* one emitted event: receiver, event name, room it concerns, payload
Emit(to, name, room, a, b, n) ==
    [to |-> to, name |-> name, room |-> room, a |-> a, b |-> b, n |-> n]

\* a dbService call in flight and what its continuation closes over
Call(kind, roomId, socket, players, ais, isAI) ==
    [kind |-> kind, roomId |-> roomId, socket |-> socket,
     players |-> players, ais |-> ais, isAI |-> isAI]

\* setInterval handle: the closure's timeLeft and whether a callback is due
Interval(timeLeft) == [timeLeft |-> timeLeft, due |-> FALSE]

\* startRoomCountdown's initial timeLeft
RoomSeconds == ROOM_TIME_LIMIT \div 1000

\* startTurnCountdown's initial timeLeft
TurnSeconds == TURN_TIME_LIMIT \div 1000

\* setInterval(callback, 1000) of a countdown for `key`: one more running
setInterval(iv, kind, key) == [iv EXCEPT ![kind][key] = @ + 1]

\* clearInterval / clearTimeout of the handle a Map holds for `key`
clearInterval(iv, kind, key) == [iv EXCEPT ![kind][key] = IF @ > 0 THEN @ - 1 ELSE 0]

\* if (someTimers.has(key)) clearInterval(someTimers.get(key))
clearIfHas(iv, kind, timers, key) ==
    IF key \in DOMAIN timers THEN clearInterval(iv, kind, key) ELSE iv

\* history bookkeeping: a room whose isActive goes true -> false starts its clock
MarkInactive(r) ==
    IF r \in DOMAIN roomObj /\ roomObj[r].isActive /\ r \notin DOMAIN sinceInactive
    THEN sinceInactive @@ (r :> 0)
    ELSE sinceInactive

\* a client event is accepted
ClientEvent == eventsLeft > 0 /\ eventsLeft' = eventsLeft - 1

\* ------------------------------------------------------------------- Init
\* the server right after start-up, about to accept `limit` client events
Start(limit) ==
    /\ waitingPlayers = <<>>
    /\ rooms = {}
    /\ roomObj = <<>>
    /\ roomTimers = <<>>
    /\ turnTimers = <<>>
    /\ cleanups = <<>>
    /\ sockRoom = [s \in Players |-> NoRoom]
    /\ sockets = 0
    /\ connected = [s \in Players |-> TRUE]
    /\ calls = {}
    /\ nextRoom = 0
    /\ unitTicks = 0
    /\ sinceInactive = <<>>
    /\ relayed = <<>>
    /\ eventsLeft = limit
    /\ intervals = [room |-> [r \in RoomIds |-> 0], turn |-> [p \in Players |-> 0]]
    /\ out = <<>>

Init == Start(MaxEvents)

\* --------------------------------------------------------- matchmaking
\* socket.on('JOIN_MATCHMAKING') -> handleMatchmaking, up to its await
JoinMatchmaking(s) ==
    /\ ClientEvent
    /\ s <= sockets + 1
    /\ sockets' = IF s > sockets THEN s ELSE sockets
    /\ connected[s]
    /\ ~InRoom(s)
    /\ s \notin WaitingIds(waitingPlayers)
    /\ \E isAI \in BOOLEAN :
         LET w == Append(waitingPlayers, [id |-> s, isAI |-> isAI])
             players == FirstTwo(w)
         IN  /\ waitingPlayers' = w
             /\ IF Len(w) >= 2
                THEN /\ nextRoom < MaxRooms
                     /\ nextRoom' = nextRoom + 1
                     /\ calls' = calls \cup
                          {Call("createConversation", nextRoom + 1, s,
                                <<players[1].id, players[2].id>>,
                                <<players[1].isAI, players[2].isAI>>, FALSE)}
                     /\ out' = <<>>
                ELSE /\ UNCHANGED <<nextRoom, calls>>
                     /\ out' = <<Emit(s, "WAITING_FOR_PLAYER", NoRoom, FALSE, FALSE, 0)>>
    /\ UNCHANGED <<rooms, roomObj, roomTimers, turnTimers, cleanups, sockRoom,
                   connected, unitTicks, sinceInactive, relayed,
                   intervals>>

\* handleMatchmaking after the await resolved with a usable conversation
ConversationCreated(c) ==
    /\ c \in calls
    /\ c.kind = "createConversation"
    /\ \E isFirstTurn \in BOOLEAN :
         LET roomId == c.roomId
             p1 == c.players[1]
             p2 == c.players[2]
         IN  /\ roomObj' = roomObj @@ (roomId :>
                   [players |-> c.players,
                    messages |-> <<>>,
                    isFirstTurn |-> isFirstTurn,
                    playerTypes |-> (p1 :> c.ais[1]) @@ (p2 :> c.ais[2]),
                    isActive |-> TRUE])
             /\ rooms' = rooms \cup {roomId}
             /\ sockRoom' = [sockRoom EXCEPT ![p1] = roomId, ![p2] = roomId]
             /\ waitingPlayers' = MapDelete(MapDelete(waitingPlayers, p1), p2)
             /\ out' = <<Emit(p1, "MATCH_FOUND", roomId, c.ais[1], isFirstTurn, ROOM_TIME_LIMIT),
                         Emit(p2, "MATCH_FOUND", roomId, c.ais[2], ~isFirstTurn, ROOM_TIME_LIMIT)>>
             /\ roomTimers' = roomTimers @@ (roomId :> Interval(RoomSeconds))
             /\ intervals' = setInterval(clearIfHas(intervals, "room", roomTimers, roomId),
                                         "room", roomId)
    /\ calls' = calls \ {c}
    /\ UNCHANGED <<eventsLeft, sockets, turnTimers, cleanups, connected, nextRoom, unitTicks,
                   sinceInactive, relayed>>

\* handleMatchmaking's catch: the call rejected or gave no conversation_id
ConversationFailed(c) ==
    /\ c \in calls
    /\ c.kind = "createConversation"
    /\ calls' = calls \ {c}
    /\ out' = <<Emit(c.socket, "ERROR Failed to join matchmaking", NoRoom, FALSE, FALSE, 0)>>
    /\ waitingPlayers' = MapDelete(waitingPlayers, c.socket)
    /\ UNCHANGED <<eventsLeft, sockets, rooms, roomObj, roomTimers, turnTimers, cleanups, sockRoom,
                   connected, nextRoom, unitTicks, sinceInactive, relayed,
                   intervals>>

\* socket.on('CANCEL_MATCHMAKING')
CancelMatchmaking(s) ==
    /\ ClientEvent
    /\ s <= sockets
    /\ connected[s]
    /\ s \in WaitingIds(waitingPlayers)
    /\ waitingPlayers' = MapDelete(waitingPlayers, s)
    /\ out' = <<>>
    /\ UNCHANGED <<sockets, rooms, roomObj, roomTimers, turnTimers, cleanups, sockRoom,
                   connected, calls, nextRoom, unitTicks, sinceInactive, relayed,
                   intervals>>

\* ------------------------------------------------------------- messages
\* socket.on('SEND_MESSAGE') up to the await on dbService.createMessage
\* (a socket has at most one createMessage for a room in flight)
SendMessage(s) ==
    /\ ClientEvent
    /\ s <= sockets
    /\ connected[s]
    /\ IF InRoom(s)
       THEN LET roomId == sockRoom[s]
                room == roomObj[roomId]
                c == Call("createMessage", roomId, s,
                          <<s, OtherPlayer(room.players, s)>>,
                          <<FALSE, FALSE>>, FALSE)
            IN  /\ Len(room.messages) < MaxMsgs
                /\ c \notin calls
                /\ calls' = calls \cup {c}
                /\ out' = <<>>
       ELSE /\ out' = <<Emit(s, "ERROR Invalid room", NoRoom, FALSE, FALSE, 0)>>
            /\ UNCHANGED calls
    /\ UNCHANGED <<sockets, waitingPlayers, rooms, roomObj, roomTimers, turnTimers,
                   cleanups, sockRoom, connected, nextRoom, unitTicks,
                   sinceInactive, relayed,
                   intervals>>

\* startTurnCountdown(roomId, playerId): the new value of turnTimers
startTurnCountdown(roomId, playerId) ==
    IF roomId \notin rooms
    THEN turnTimers
    ELSE [x \in DOMAIN turnTimers \cup {playerId} |->
            IF x = playerId
            THEN [roomId |-> roomId, timeLeft |-> TurnSeconds, due |-> FALSE]
            ELSE turnTimers[x]]

\* a startTurnCountdown that sets the new interval without clearing the old
startTurnCountdownNoClear(roomId, playerId) ==
    IF roomId \notin rooms
    THEN intervals
    ELSE setInterval(intervals, "turn", playerId)

\* startTurnCountdown(roomId, playerId): the running intervals afterwards
startTurnCountdownIntervals(roomId, playerId) ==
    IF roomId \notin rooms
    THEN intervals
    ELSE setInterval(clearIfHas(intervals, "turn", turnTimers, playerId),
                     "turn", playerId)

\* SEND_MESSAGE after createMessage resolved
MessageSaved(c) ==
    /\ c \in calls
    /\ c.kind = "createMessage"
    /\ LET s == c.socket
           otherPlayer == c.players[2]
           room == roomObj[c.roomId]
       IN  /\ roomObj' = [roomObj EXCEPT ![c.roomId].messages =
                              Append(room.messages, [text |-> "hi"])]
           /\ relayed' = [x \in DOMAIN relayed \cup {c.roomId} |->
                            IF x = c.roomId /\ x \in DOMAIN relayed
                            THEN Append(relayed[x], s)
                            ELSE IF x = c.roomId THEN <<s>> ELSE relayed[x]]
           /\ out' = <<Emit(s, "RECEIVE_MESSAGE", c.roomId, TRUE, FALSE, 0),
                       Emit(otherPlayer, "RECEIVE_MESSAGE", c.roomId, FALSE, FALSE, 0),
                       Emit(otherPlayer, "YOUR_TURN", c.roomId, TRUE, FALSE, TURN_TIME_LIMIT)>>
           /\ turnTimers' = startTurnCountdown(sockRoom[s], otherPlayer)
           /\ intervals' = startTurnCountdownIntervals(sockRoom[s], otherPlayer)
    /\ calls' = calls \ {c}
    /\ UNCHANGED <<eventsLeft, sockets, waitingPlayers, rooms, roomTimers, cleanups, sockRoom,
                   connected, nextRoom, unitTicks, sinceInactive>>

\* a catch reached after the message was already pushed to the transcript
MessageFailedAfterPush(c) ==
    /\ c \in calls
    /\ c.kind = "createMessage"
    /\ calls' = calls \ {c}
    /\ roomObj' = [roomObj EXCEPT ![c.roomId].messages = Append(@, [text |-> "hi"])]
    /\ out' = <<Emit(c.socket, "ERROR Failed to send message", c.roomId, FALSE, FALSE, 0)>>
    /\ UNCHANGED <<eventsLeft, sockets, waitingPlayers, rooms, roomTimers, turnTimers,
                   cleanups, sockRoom, connected, nextRoom, unitTicks,
                   sinceInactive, relayed,
                   intervals>>

\* SEND_MESSAGE's catch
MessageFailed(c) ==
    /\ c \in calls
    /\ c.kind = "createMessage"
    /\ calls' = calls \ {c}
    /\ out' = <<Emit(c.socket, "ERROR Failed to send message", c.roomId, FALSE, FALSE, 0)>>
    /\ UNCHANGED <<eventsLeft, sockets, waitingPlayers, rooms, roomObj, roomTimers, turnTimers,
                   cleanups, sockRoom, connected, nextRoom, unitTicks,
                   sinceInactive, relayed,
                   intervals>>

\* ---------------------------------------------------------------- guess
\* socket.on('MAKE_GUESS') up to the await on dbService.submitGuess
\* (a socket has at most one submitGuess in flight)
MakeGuess(s) ==
    /\ ClientEvent
    /\ s <= sockets
    /\ connected[s]
    /\ IF InRoom(s)
       THEN \E isAI \in BOOLEAN :
            LET roomId == sockRoom[s]
                c == Call("submitGuess", roomId, s, roomObj[roomId].players,
                          <<FALSE, FALSE>>, isAI)
            IN  /\ \A d \in calls : ~(d.kind = "submitGuess" /\ d.socket = s)
                /\ roomTimers' = Without(roomTimers, roomId)
                /\ intervals' = clearIfHas(intervals, "room", roomTimers, roomId)
                /\ calls' = calls \cup {c}
                /\ out' = <<>>
       ELSE /\ out' = <<Emit(s, "ERROR Invalid room", NoRoom, FALSE, FALSE, 0)>>
            /\ UNCHANGED <<calls, roomTimers, intervals>>
    /\ UNCHANGED <<sockets, waitingPlayers, rooms, roomObj, turnTimers, cleanups,
                   sockRoom, connected, nextRoom, unitTicks, sinceInactive,
                   relayed>>

\* the row dbService.submitGuess returns for a conversation: the ids and
\* flags createConversation was given for it
submitGuessResult(roomId) ==
    LET room == roomObj[roomId]
    IN  [player1_id |-> room.players[1],
         player1_is_ai |-> room.playerTypes[room.players[1]],
         player2_is_ai |-> room.playerTypes[room.players[2]]]

\* scoring against the guesser's own stored flag
guessOutcomeOwn(socketId, isAI, result) ==
    LET own == IF socketId = result.player1_id
               THEN result.player1_is_ai
               ELSE result.player2_is_ai
    IN  [isCorrect |-> isAI = own, opponentGuess |-> isAI, actualAI |-> own]

\* the payload of GUESS_RESULT: isCorrect, opponentGuess and actualType
\* ('AI' when actualAI), resolved by matching the socket id against the
\* player1_id of the returned row
guessOutcome(socketId, isAI, result) ==
    [isCorrect |-> IF socketId = result.player1_id
                   THEN isAI = result.player2_is_ai
                   ELSE isAI = result.player1_is_ai,
     opponentGuess |-> isAI,
     actualAI |-> IF socketId = result.player1_id
                  THEN result.player2_is_ai
                  ELSE result.player1_is_ai]

\* MAKE_GUESS after submitGuess resolved
GuessSubmitted(c) ==
    /\ c \in calls
    /\ c.kind = "submitGuess"
    /\ LET s == c.socket
           g == guessOutcome(s, c.isAI, submitGuessResult(c.roomId))
           otherPlayer == OtherPlayer(roomObj[c.roomId].players, s)
       IN  out' = <<[Emit(s, "GUESS_RESULT", c.roomId, g.isCorrect, g.opponentGuess, 0)
                        EXCEPT !.n = IF g.actualAI THEN 1 ELSE 0],
                    Emit(otherPlayer, "GAME_OVER", c.roomId, FALSE, FALSE, 0)>>
    /\ calls' = calls \ {c}
    /\ UNCHANGED <<eventsLeft, sockets, waitingPlayers, rooms, roomObj, roomTimers, turnTimers,
                   cleanups, sockRoom, connected, nextRoom, unitTicks,
                   sinceInactive, relayed,
                   intervals>>

\* a catch that starts the room countdown again
GuessFailedRestarts(c) ==
    /\ c \in calls
    /\ c.kind = "submitGuess"
    /\ calls' = calls \ {c}
    /\ out' = <<Emit(c.socket, "ERROR Failed to submit guess", c.roomId, FALSE, FALSE, 0)>>
    /\ roomTimers' = [r \in DOMAIN roomTimers \cup {c.roomId} |-> Interval(RoomSeconds)]
    /\ UNCHANGED <<eventsLeft, sockets, waitingPlayers, rooms, roomObj, turnTimers,
                   cleanups, sockRoom, connected, nextRoom, unitTicks,
                   sinceInactive, relayed,
                   intervals>>

\* MAKE_GUESS's catch
GuessFailed(c) ==
    /\ c \in calls
    /\ c.kind = "submitGuess"
    /\ calls' = calls \ {c}
    /\ out' = <<Emit(c.socket, "ERROR Failed to submit guess", c.roomId, FALSE, FALSE, 0)>>
    /\ UNCHANGED <<eventsLeft, sockets, waitingPlayers, rooms, roomObj, roomTimers, turnTimers,
                   cleanups, sockRoom, connected, nextRoom, unitTicks,
                   sinceInactive, relayed,
                   intervals>>

\* ------------------------------------------------------ retire, disconnect
\* a setTimeout(() => rooms.delete(socket.roomId), 5000) closure of a socket
SocketCleanup(s) == [kind |-> "socket", key |-> s, rem |-> CleanupSecs]

\* the setTimeout(() => rooms.delete(roomId), 5000) closure of the time-up branch
RoomCleanup(roomId) == [kind |-> "room", key |-> roomId, rem |-> CleanupSecs]

\* what RETIRE and handleDisconnect emit to the other player
OpponentGone(roomId, s) ==
    LET room == roomObj[roomId]
        otherPlayer == OtherPlayer(room.players, s)
    IN  <<Emit(otherPlayer, "OPPONENT_DISCONNECTED", roomId, room.playerTypes[s], FALSE, 0),
          Emit(otherPlayer, "YOUR_TURN", roomId, FALSE, TRUE, 0)>>

\* socket.on('RETIRE'); room.roomTimer is never assigned, so its clearTimeout
\* branch is dead and the interval in roomTimers keeps running
Retire(s) ==
    /\ ClientEvent
    /\ s <= sockets
    /\ connected[s]
    /\ InRoom(s)
    /\ Len(cleanups) < MaxCleanups
    /\ LET roomId == sockRoom[s]
       IN  /\ out' = OpponentGone(roomId, s)
           /\ roomObj' = [roomObj EXCEPT ![roomId].isActive = FALSE]
           /\ sinceInactive' = MarkInactive(roomId)
           /\ cleanups' = Append(cleanups, SocketCleanup(s))
    /\ UNCHANGED <<sockets, waitingPlayers, rooms, roomTimers, turnTimers, sockRoom,
                   connected, calls, nextRoom, unitTicks, relayed,
                   intervals>>

\* socket.on('disconnect') -> handleDisconnect
Disconnect(s) ==
    /\ ClientEvent
    /\ s <= sockets
    /\ connected[s]
    /\ connected' = [connected EXCEPT ![s] = FALSE]
    /\ waitingPlayers' = MapDelete(waitingPlayers, s)
    /\ IF InRoom(s)
       THEN LET roomId == sockRoom[s]
            IN  /\ roomTimers' = Without(roomTimers, roomId)
                /\ intervals' = clearIfHas(intervals, "room", roomTimers, roomId)
                /\ out' = OpponentGone(roomId, s)
                /\ roomObj' = [roomObj EXCEPT ![roomId].isActive = FALSE]
                /\ sinceInactive' = MarkInactive(roomId)
                /\ cleanups' = Append(cleanups, SocketCleanup(s))
       ELSE /\ out' = <<>>
            /\ UNCHANGED <<roomTimers, roomObj, sinceInactive, cleanups, intervals>>
    /\ UNCHANGED <<sockets, rooms, turnTimers, sockRoom, calls, nextRoom, unitTicks,
                   relayed>>

\* ---------------------------------------------------------------- timers
\* the setInterval callback of startRoomCountdown; `room` is the object the
\* closure captured, whether or not it is still registered
RoomTimerTick(roomId) ==
    /\ roomId \in DOMAIN roomTimers
    /\ roomTimers[roomId].due
    /\ LET room == roomObj[roomId]
           timeLeft == roomTimers[roomId].timeLeft - 1
           p1 == room.players[1]
           p2 == room.players[2]
           update == <<Emit(p1, "TIME_UPDATE", roomId, timeLeft <= 30, FALSE, timeLeft),
                       Emit(p2, "TIME_UPDATE", roomId, timeLeft <= 30, FALSE, timeLeft)>>
       IN  IF ~room.isActive
           THEN /\ roomTimers' = Without(roomTimers, roomId)
                /\ intervals' = clearInterval(intervals, "room", roomId)
                /\ out' = <<>>
                /\ UNCHANGED <<roomObj, cleanups, sinceInactive>>
           ELSE IF timeLeft <= 0
           THEN /\ roomTimers' = Without(roomTimers, roomId)
                /\ intervals' = clearInterval(intervals, "room", roomId)
                /\ out' = update \o
                          <<Emit(p1, "ROOM_TIME_UP", roomId, FALSE, FALSE, 0),
                            Emit(p2, "ROOM_TIME_UP", roomId, FALSE, FALSE, 0)>>
                /\ roomObj' = [roomObj EXCEPT ![roomId].isActive = FALSE]
                /\ sinceInactive' = MarkInactive(roomId)
                /\ cleanups' = Append(cleanups, RoomCleanup(roomId))
           ELSE /\ roomTimers' = [roomTimers EXCEPT ![roomId] = Interval(timeLeft)]
                /\ out' = update
                /\ UNCHANGED <<roomObj, cleanups, sinceInactive, intervals>>
    /\ UNCHANGED <<eventsLeft, sockets, waitingPlayers, rooms, turnTimers, sockRoom, connected,
                   calls, nextRoom, unitTicks, relayed>>

\* handleForfeit(roomId, playerId): what it emits
handleForfeitOut(roomId, playerId) ==
    IF roomId \notin rooms
    THEN <<>>
    ELSE <<Emit(playerId, "FORFEIT_RESULT", roomId, FALSE, FALSE, 0),
           Emit(OtherPlayer(roomObj[roomId].players, playerId),
                "OPPONENT_FORFEIT", roomId, FALSE, FALSE, 0)>>

\* handleForfeit(roomId, playerId): the new value of roomTimers
handleForfeitTimers(roomId) ==
    IF roomId \notin rooms THEN roomTimers ELSE Without(roomTimers, roomId)

\* handleForfeit(roomId, playerId): the running intervals afterwards
handleForfeitIntervals(iv, roomId) ==
    IF roomId \notin rooms THEN iv ELSE clearIfHas(iv, "room", roomTimers, roomId)

\* the setInterval callback of startTurnCountdown
TurnTimerTick(playerId) ==
    /\ playerId \in DOMAIN turnTimers
    /\ turnTimers[playerId].due
    /\ LET t == turnTimers[playerId]
           timeLeft == t.timeLeft - 1
           update == <<Emit(playerId, "TURN_TIME_UPDATE", t.roomId, timeLeft <= 5, FALSE, timeLeft)>>
       IN  IF timeLeft <= 0
           THEN /\ turnTimers' = Without(turnTimers, playerId)
                /\ out' = update
                          \o <<Emit(playerId, "TURN_TIME_UP", t.roomId, FALSE, FALSE, 0)>>
                          \o handleForfeitOut(t.roomId, playerId)
                /\ roomTimers' = handleForfeitTimers(t.roomId)
                /\ intervals' = handleForfeitIntervals(
                                    clearInterval(intervals, "turn", playerId), t.roomId)
           ELSE /\ turnTimers' = [turnTimers EXCEPT ![playerId].timeLeft = timeLeft,
                                                    ![playerId].due = FALSE]
                /\ out' = update
                /\ UNCHANGED <<roomTimers, intervals>>
    /\ UNCHANGED <<eventsLeft, sockets, waitingPlayers, rooms, roomObj, cleanups, sockRoom,
                   connected, calls, nextRoom, unitTicks, sinceInactive,
                   relayed>>

\* the oldest 5000 ms timeout fires: rooms.delete(socket.roomId) reads the
\* socket's roomId now, rooms.delete(roomId) the id the closure captured
CleanupTarget(task) == IF task.kind = "socket" THEN sockRoom[task.key] ELSE task.key

CleanupFires ==
    /\ cleanups # <<>>
    /\ Head(cleanups).rem = 0
    /\ rooms' = rooms \ {CleanupTarget(Head(cleanups))}
    /\ cleanups' = Tail(cleanups)
    /\ out' = <<>>
    /\ UNCHANGED <<eventsLeft, sockets, waitingPlayers, roomObj, roomTimers, turnTimers, sockRoom,
                   connected, calls, nextRoom, unitTicks, sinceInactive,
                   relayed,
                   intervals>>

\* ------------------------------------------------------------------ time
NoTimerDue ==
    /\ \A r \in DOMAIN roomTimers : ~roomTimers[r].due
    /\ \A p \in DOMAIN turnTimers : ~turnTimers[p].due
    /\ \A i \in DOMAIN cleanups : cleanups[i].rem > 0

\* k seconds may pass in one step when the callbacks of the first k-1 only
\* count down and emit their TIME_UPDATE / TURN_TIME_UPDATE (those updates
\* are not recorded in `out`); the callbacks of second k become due
CanPass(k) ==
    /\ k >= 1
    /\ \A r \in DOMAIN roomTimers :
          k = 1 \/ (roomObj[r].isActive /\ k <= roomTimers[r].timeLeft)
    /\ \A p \in DOMAIN turnTimers : k <= turnTimers[p].timeLeft
    /\ \A i \in DOMAIN cleanups : k <= cleanups[i].rem

Horizon ==
    {roomTimers[r].timeLeft : r \in DOMAIN roomTimers}
      \cup {turnTimers[p].timeLeft : p \in DOMAIN turnTimers}
      \cup {cleanups[i].rem : i \in DOMAIN cleanups}

\* time advances by one second, or to the next second at which a timer
\* expires, a timeout fires or an interval finds its room inactive
TimePasses(k) ==
    /\ NoTimerDue
    /\ Horizon # {}
    /\ CanPass(k)
    /\ IF CanPass(k + 1)
       THEN /\ k = 1
            /\ unitTicks < MaxUnitTicks
            /\ unitTicks' = unitTicks + 1
       ELSE UNCHANGED unitTicks
    /\ roomTimers' = [r \in DOMAIN roomTimers |->
                        [timeLeft |-> roomTimers[r].timeLeft - (k - 1), due |-> TRUE]]
    /\ turnTimers' = [p \in DOMAIN turnTimers |->
                        [turnTimers[p] EXCEPT !.timeLeft = @ - (k - 1), !.due = TRUE]]
    /\ cleanups' = [i \in DOMAIN cleanups |-> [cleanups[i] EXCEPT !.rem = @ - k]]
    /\ sinceInactive' = [r \in DOMAIN sinceInactive |->
                           Min(sinceInactive[r] + k, CleanupSecs + 1)]
    /\ out' = <<>>
    /\ UNCHANGED <<eventsLeft, sockets, waitingPlayers, rooms, roomObj, sockRoom, connected, calls,
                   nextRoom, relayed,
                   intervals>>

\* ------------------------------------------------------------------ Next
Next ==
    \/ \E s \in Players : JoinMatchmaking(s)
    \/ \E s \in Players : CancelMatchmaking(s)
    \/ \E c \in calls : ConversationCreated(c)
    \/ \E c \in calls : ConversationFailed(c)
    \/ \E s \in Players : SendMessage(s)
    \/ \E c \in calls : MessageSaved(c)
    \/ \E c \in calls : MessageFailed(c)
    \/ \E s \in Players : MakeGuess(s)
    \/ \E c \in calls : GuessSubmitted(c)
    \/ \E c \in calls : GuessFailed(c)
    \/ \E s \in Players : Retire(s)
    \/ \E s \in Players : Disconnect(s)
    \/ \E r \in RoomIds : RoomTimerTick(r)
    \/ \E p \in Players : TurnTimerTick(p)
    \/ CleanupFires
    \/ \E k \in Horizon \cup {1} : TimePasses(k)

Spec == Init /\ [][Next]_vars

\* the matchmaking queue on its own: joins, cancels, disconnects and the
\* continuations of createConversation
NextMatch ==
    \/ \E s \in Players : JoinMatchmaking(s)
    \/ \E s \in Players : CancelMatchmaking(s)
    \/ \E s \in Players : Disconnect(s)
    \/ \E c \in calls : ConversationCreated(c)
    \/ \E c \in calls : ConversationFailed(c)

SpecMatch == Start(MaxMatchEvents) /\ [][NextMatch]_vars

\* a session's life without guesses and persistence failures: pairing,
\* messages, retire, disconnect, the countdowns and the delayed cleanup
NextSession ==
    \/ \E s \in Players : JoinMatchmaking(s)
    \/ \E c \in calls : ConversationCreated(c)
    \/ \E s \in Players : SendMessage(s)
    \/ \E c \in calls : MessageSaved(c)
    \/ \E s \in Players : Retire(s)
    \/ \E s \in Players : Disconnect(s)
    \/ \E r \in RoomIds : RoomTimerTick(r)
    \/ \E p \in Players : TurnTimerTick(p)
    \/ CleanupFires
    \/ \E k \in Horizon \cup {1} : TimePasses(k)

SpecSession == Start(MaxSessionEvents) /\ [][NextSession]_vars

\* the countdowns on their own, for the first TurnPlayers sockets: pairing,
\* messages, the two kinds of interval and the delayed cleanup, with no
\* guess, retire, disconnect or failure
NextTurns ==
    \/ \E s \in 1 .. TurnPlayers : JoinMatchmaking(s)
    \/ \E c \in calls : ConversationCreated(c)
    \/ \E s \in Players : SendMessage(s)
    \/ \E c \in calls : MessageSaved(c)
    \/ \E r \in RoomIds : RoomTimerTick(r)
    \/ \E p \in Players : TurnTimerTick(p)
    \/ CleanupFires
    \/ \E k \in Horizon \cup {1} : TimePasses(k)

SpecTurns == Start(MaxTurnEvents) /\ [][NextTurns]_vars

\* ================================================================ claims
PlayersOf(r) == {roomObj[r].players[1], roomObj[r].players[2]}

SessionsOf(p) == {r \in rooms : p \in PlayersOf(r)}

Emitted(name, r) == \E i \in DOMAIN out : out[i].name = name /\ out[i].room = r

\* C1: every participant id is in at most one of: the matchmaking queue, the
\* participants of one registered session (never in the queue and a session
\* at once, never in two registered sessions at once).
C1_AtMostOnePlace ==
    \A p \in Players :
        Cardinality(SessionsOf(p))
          + (IF p \in WaitingIds(waitingPlayers) THEN 1 ELSE 0) <= 1

\* C2: a session is removed from the registry only when its active flag is
\* false and at least the 5-second grace delay has passed since its own
\* active true -> false transition.
C2_RemovedOnlyAfterGrace ==
    [][\A r \in rooms \ rooms' :
          /\ ~roomObj[r].isActive
          /\ r \in DOMAIN sinceInactive
          /\ sinceInactive[r] >= CleanupSecs]_vars

\* C3: a session is in the registry at every instant before its first
\* terminal transition + 5 s and absent at every instant after it.
C3_RemovedExactlyAtGrace ==
    \A r \in DOMAIN roomObj :
        /\ (r \notin DOMAIN sinceInactive \/ sinceInactive[r] < CleanupSecs)
              => r \in rooms
        /\ (r \in DOMAIN sinceInactive /\ sinceInactive[r] > CleanupSecs)
              => r \notin rooms

\* C4: once a guess result, a retire or disconnect notice, or the time-up
\* notice of a session has been emitted, the session is inactive, its
\* session-wide timer is not running and a cleanup task for it is pending.
C4_TerminalOutcomeTearsDown ==
    \A r \in DOMAIN roomObj :
        (Emitted("GUESS_RESULT", r) \/ Emitted("OPPONENT_DISCONNECTED", r)
            \/ Emitted("ROOM_TIME_UP", r))
        => /\ ~roomObj[r].isActive
           /\ r \notin DOMAIN roomTimers
           /\ \E i \in DOMAIN cleanups : CleanupTarget(cleanups[i]) = r

\* C5: for a session that is already inactive, no step emits a further
\* OPPONENT_DISCONNECTED or guess-granting YOUR_TURN for it, and no step
\* schedules a further removal task for it.
C5_TerminalIsIdempotent ==
    [][\A r \in DOMAIN roomObj :
          ~roomObj[r].isActive =>
            /\ \A i \in DOMAIN out' :
                  out'[i].room = r =>
                    /\ out'[i].name # "OPPONENT_DISCONNECTED"
                    /\ ~(out'[i].name = "YOUR_TURN" /\ out'[i].b)
            /\ Len(cleanups') > Len(cleanups) =>
                  CleanupTarget(cleanups'[Len(cleanups')]) # r]_vars

\* C6: a SEND_MESSAGE for a session that is inactive or no longer registered
\* is rejected before persistence: createMessage is called only for a
\* registered session whose active flag is true.
C6_NoRelayAfterTerminal ==
    [][\A c \in calls' \ calls :
          c.kind = "createMessage" =>
            c.roomId \in rooms /\ roomObj[c.roomId].isActive]_vars

\* the participant MATCH_FOUND told isFirstTurn = true
FirstTurnHolder(r) ==
    IF roomObj[r].isFirstTurn THEN roomObj[r].players[1] ELSE roomObj[r].players[2]

\* C7: the first relayed message of a session comes from the participant who
\* was given the first turn, and no participant has two messages relayed in
\* a row.
C7_TurnsAlternate ==
    \A r \in DOMAIN relayed :
        /\ relayed[r][1] = FirstTurnHolder(r)
        /\ \A i \in 1 .. Len(relayed[r]) - 1 : relayed[r][i] # relayed[r][i + 1]

\* C8: a pairing selects the two earliest entries of the queue in insertion
\* order, whoever triggered it; the session built from it has exactly those
\* two, distinct, as participants[0] and participants[1], and a registered
\* session's participants never change.
C8_PairingIsFifo ==
    [][/\ \A c \in calls' \ calls :
             c.kind = "createConversation" =>
               /\ Len(waitingPlayers') >= 2
               /\ c.players = <<waitingPlayers'[1].id, waitingPlayers'[2].id>>
               /\ c.ais = <<waitingPlayers'[1].isAI, waitingPlayers'[2].isAI>>
       /\ \A r \in rooms' \ rooms :
             \E c \in calls \ calls' :
                /\ c.kind = "createConversation"
                /\ c.roomId = r
                /\ roomObj'[r].players = c.players
       /\ \A r \in rooms' :
             /\ Len(roomObj'[r].players) = 2
             /\ roomObj'[r].players[1] # roomObj'[r].players[2]
             /\ r \in rooms => roomObj'[r].players = roomObj[r].players]_vars

\* C8 happens: a pairing is in flight that was triggered by the join of an
\* entry later than the two it selected
C8_Witness ==
    \E c \in calls :
        /\ c.kind = "createConversation"
        /\ c.socket \notin {c.players[1], c.players[2]}

\* C9: whenever the queue holds two or more entries, a session creation is
\* pending.
C9_TwoWaitingMeansPairing ==
    Len(waitingPlayers) >= 2 =>
        \E c \in calls : c.kind = "createConversation"

\* C10: when createConversation fails, no session is registered, no session
\* timer is started, and both selected participants receive an ERROR.
C10_FailureNotifiesBoth ==
    [][\A c \in calls \ calls' :
          (c.kind = "createConversation" /\ c.roomId \notin rooms') =>
            /\ c.roomId \notin DOMAIN roomTimers'
            /\ \A p \in {c.players[1], c.players[2]} :
                  \E i \in DOMAIN out' :
                     /\ out'[i].to = p
                     /\ out'[i].name = "ERROR Failed to join matchmaking"]_vars

\* C11: the GUESS_RESULT sent to a guesser has isCorrect = (the guessed value
\* equals the other participant's stored flag), opponentGuess = the guessed
\* value and actualType = the other participant's type, whichever of the two
\* participants guesses; the other participant receives GAME_OVER.
C11_GuessScoredAgainstOther ==
    [][\A c \in calls \ calls' :
          (c.kind = "submitGuess" /\ Emitted("GUESS_RESULT", c.roomId)') =>
            LET room == roomObj[c.roomId]
                other == OtherPlayer(room.players, c.socket)
            IN  /\ Len(out') = 2
                /\ out'[1].to = c.socket
                /\ out'[1].name = "GUESS_RESULT"
                /\ out'[1].a = (c.isAI = room.playerTypes[other])
                /\ out'[1].b = c.isAI
                /\ out'[1].n = (IF room.playerTypes[other] THEN 1 ELSE 0)
                /\ out'[2].to = other
                /\ out'[2].name = "GAME_OVER"]_vars

\* C11 happens: participants[1] was told its wrong guess about an AI-flagged
\* participants[0]
C11_Witness ==
    \E i \in DOMAIN out :
        /\ out[i].name = "GUESS_RESULT"
        /\ out[i].to = roomObj[out[i].room].players[2]
        /\ ~out[i].a
        /\ ~out[i].b
        /\ out[i].n = 1

\* C12: when submitGuess fails, the guesser alone receives an ERROR, no
\* GUESS_RESULT and no GAME_OVER is emitted, the session keeps its place in
\* the registry and its active flag, and the room countdown cleared before
\* the call stays cleared: a countdown is only ever started for a session
\* that is being created, and TIME_UPDATE / ROOM_TIME_UP come only from a
\* registered countdown.
C12_FailedGuessKeepsSession ==
    [][/\ \A c \in calls \ calls' :
             (c.kind = "submitGuess" /\ ~Emitted("GUESS_RESULT", c.roomId)') =>
               /\ out' = <<Emit(c.socket, "ERROR Failed to submit guess",
                                c.roomId, FALSE, FALSE, 0)>>
               /\ rooms' = rooms
               /\ roomObj'[c.roomId].isActive = roomObj[c.roomId].isActive
               /\ c.roomId \notin DOMAIN roomTimers'
       /\ \A c \in calls' :
             c.kind = "submitGuess" => c.roomId \notin DOMAIN roomTimers'
       /\ \A r \in DOMAIN roomTimers' \ DOMAIN roomTimers : r \notin DOMAIN roomObj
       /\ \A r \in DOMAIN roomObj :
             (Emitted("TIME_UPDATE", r)' \/ Emitted("ROOM_TIME_UP", r)') =>
                r \in DOMAIN roomTimers]_vars

\* C12 happens: a guess has just failed for a session that is registered
\* and active, and its countdown is not running
C12_Witness ==
    \E i \in DOMAIN out :
        /\ out[i].name = "ERROR Failed to submit guess"
        /\ out[i].room \in rooms
        /\ roomObj[out[i].room].isActive
        /\ out[i].room \notin DOMAIN roomTimers

\* a turn countdown was started or replaced for p by the step
TurnTimerStarted(p) ==
    /\ p \in DOMAIN turnTimers'
    /\ \/ p \notin DOMAIN turnTimers
       \/ turnTimers'[p].timeLeft > turnTimers[p].timeLeft
       \/ turnTimers'[p].roomId # turnTimers[p].roomId

\* C13: when createMessage fails, the transcripts and the turn countdowns
\* are unchanged and the only emission is an ERROR to the sender; a
\* transcript grows, a RECEIVE_MESSAGE or a send-permitting YOUR_TURN is
\* emitted and a turn countdown is started or replaced only in a step in
\* which a createMessage call of that session has resolved.
C13_FailedMessageHasNoEffect ==
    [][/\ \A c \in calls \ calls' :
             (c.kind = "createMessage" /\ ~Emitted("RECEIVE_MESSAGE", c.roomId)') =>
               /\ out' = <<Emit(c.socket, "ERROR Failed to send message",
                                c.roomId, FALSE, FALSE, 0)>>
               /\ roomObj' = roomObj
               /\ turnTimers' = turnTimers
               /\ relayed' = relayed
       /\ \A r \in DOMAIN roomObj :
             (\/ roomObj'[r].messages # roomObj[r].messages
              \/ Emitted("RECEIVE_MESSAGE", r)'
              \/ \E i \in DOMAIN out' :
                    out'[i].name = "YOUR_TURN" /\ out'[i].room = r /\ out'[i].a)
             => \E c \in calls \ calls' : c.kind = "createMessage" /\ c.roomId = r
       /\ (\E p \in Players : TurnTimerStarted(p))
             => \E c \in calls \ calls' : c.kind = "createMessage"]_vars

\* C13 happens: a message has just failed in a registered session whose
\* transcript is empty and whose participants have no turn countdown
C13_Witness ==
    \E i \in DOMAIN out :
        /\ out[i].name = "ERROR Failed to send message"
        /\ out[i].room \in rooms
        /\ roomObj[out[i].room].messages = <<>>
        /\ \A p \in PlayersOf(out[i].room) : p \notin DOMAIN turnTimers

\* C14: whenever a turn countdown reaches 0, its participant receives
\* TURN_TIME_UP and then FORFEIT_RESULT, the other participant of the session
\* receives OPPONENT_FORFEIT, the room countdown of the session is not
\* registered afterwards and no turn countdown is started - also when the
\* room countdown has ended the session before.
C14_ExpiryForfeits ==
    [][\A i \in DOMAIN out' :
          out'[i].name = "TURN_TIME_UP" =>
            LET p == out'[i].to
                r == out'[i].room
            IN  /\ i + 2 <= Len(out')
                /\ out'[i + 1] = Emit(p, "FORFEIT_RESULT", r, FALSE, FALSE, 0)
                /\ out'[i + 2] = Emit(OtherPlayer(roomObj[r].players, p),
                                      "OPPONENT_FORFEIT", r, FALSE, FALSE, 0)
                /\ r \notin DOMAIN roomTimers'
                /\ \A q \in Players : ~TurnTimerStarted(q)]_vars

\* C15: there is at most one running room countdown per room id and at most
\* one running turn countdown per player id, each of them the one its Map
\* holds: starting a turn countdown for a player who has one clears the
\* earlier interval. A countdown that emits its expiry (ROOM_TIME_UP,
\* TURN_TIME_UP) is cleared in the same callback, so it expires once.
C15_TimersAreUnique ==
    [][/\ \A r \in RoomIds :
             intervals'.room[r] = IF r \in DOMAIN roomTimers' THEN 1 ELSE 0
       /\ \A p \in Players :
             intervals'.turn[p] = IF p \in DOMAIN turnTimers' THEN 1 ELSE 0
       /\ \A i \in DOMAIN out' :
             /\ out'[i].name = "TURN_TIME_UP" => intervals'.turn[out'[i].to] = 0
             /\ out'[i].name = "ROOM_TIME_UP" => intervals'.room[out'[i].room] = 0]_vars

\* C15 happens: a player who had a turn countdown running was sent a second
\* message in a row and has a single, fresh countdown
C15_Witness ==
    \E r \in DOMAIN relayed :
        /\ Len(relayed[r]) >= 2
        /\ relayed[r][1] = relayed[r][2]
        /\ LET p == OtherPlayer(roomObj[r].players, relayed[r][1])
           IN  /\ p \in DOMAIN turnTimers
               /\ turnTimers[p].timeLeft = TurnSeconds
               /\ intervals.turn[p] = 1

\* C16: the timeLeft announced to clients is, in seconds, the value the
\* started countdown begins with: MATCH_FOUND carries 120 and the room
\* countdown starts at 120, a send-permitting YOUR_TURN carries 900 and the
\* receiver's turn countdown starts at 900, so that the first TIME_UPDATE /
\* TURN_TIME_UPDATE carries the announced value minus 1.
C16_AnnouncedBudgetIsCounter ==
    [][\A i \in DOMAIN out' :
          /\ out'[i].name = "MATCH_FOUND" =>
                /\ out'[i].n = RoomSeconds
                /\ out'[i].room \in DOMAIN roomTimers'
                /\ out'[i].n = roomTimers'[out'[i].room].timeLeft
          /\ (out'[i].name = "YOUR_TURN" /\ out'[i].a) =>
                /\ out'[i].n = TurnSeconds
                /\ out'[i].to \in DOMAIN turnTimers' =>
                      out'[i].n = turnTimers'[out'[i].to].timeLeft]_vars

\* C17: when a notification of a guess, retire, disconnect or forfeit is
\* emitted (GUESS_RESULT, GAME_OVER, OPPONENT_DISCONNECTED, a guess-granting
\* YOUR_TURN, FORFEIT_RESULT, OPPONENT_FORFEIT), the room countdown of that
\* session is no longer registered in roomTimers.
C17_TimerCancelledBeforeNotice ==
    \A i \in DOMAIN out :
        (\/ out[i].name \in {"GUESS_RESULT", "GAME_OVER", "OPPONENT_DISCONNECTED",
                              "FORFEIT_RESULT", "OPPONENT_FORFEIT"}
         \/ (out[i].name = "YOUR_TURN" /\ out[i].b))
        => out[i].room \notin DOMAIN roomTimers

\* C18: when the session of a createMessage or submitGuess call in flight
\* has become inactive or has been removed by the time the call resolves,
\* the continuation appends nothing to the transcript, starts no turn
\* countdown and emits no RECEIVE_MESSAGE, YOUR_TURN, GUESS_RESULT or
\* GAME_OVER.
C18_ContinuationRevalidates ==
    [][\A c \in calls \ calls' :
          (/\ c.kind \in {"createMessage", "submitGuess"}
           /\ (c.roomId \notin rooms \/ ~roomObj[c.roomId].isActive))
          => /\ roomObj'[c.roomId].messages = roomObj[c.roomId].messages
             /\ \A p \in Players : ~TurnTimerStarted(p)
             /\ \A i \in DOMAIN out' :
                   out'[i].name \notin {"RECEIVE_MESSAGE", "YOUR_TURN",
                                        "GUESS_RESULT", "GAME_OVER"}]_vars

\* C19: a participant who cancelled or disconnected while waiting is not
\* placed into a session unless they joined again: every session added to
\* the registry consists of two participants who are both in the queue at
\* the moment the session is created.
C19_PairedOnlyFromQueue ==
    [][\A r \in rooms' \ rooms :
          \A p \in {roomObj'[r].players[1], roomObj'[r].players[2]} :
             p \in WaitingIds(waitingPlayers)]_vars

\* C20: a relayed message stops the turn countdown of its sender, so a turn
\* countdown never expires for a participant who has sent since it started,
\* and at most one of a session's two participants has a running turn
\* countdown.
C20_SendStopsOwnTurnTimer ==
    /\ \A i \in DOMAIN out :
          (out[i].name = "RECEIVE_MESSAGE" /\ out[i].a)
             => out[i].to \notin DOMAIN turnTimers
    /\ \A r \in DOMAIN roomObj :
          Cardinality({p \in PlayersOf(r) :
                         p \in DOMAIN turnTimers /\ turnTimers[p].roomId = r}) <= 1

====
